---- MODULE Spec2Model ----
(***************************************************************************)
(* Model of src/oskbd/windows/interception.rs: the InputEvent encoders     *)
(* (from_oscode, from_mouse_btn, from_mouse_scroll, from_mouse_move) and   *)
(* the KbdOut handle that hands (bool, InputEvent) pairs to the            *)
(* std::sync::mpsc channel read by the interception loop.                  *)
(***************************************************************************)
EXTENDS Integers, Sequences, FiniteSets, TLC

(* ------------------------------ bounds --------------------------------- *)

\* number of KbdOut calls started in one behaviour
MaxCalls == 3

\* number of KbdOut calls started in one behaviour of several producers
MaxConcurrentCalls == 2

(* ------------------------- program constants --------------------------- *)

\* i16::MAX, the largest value i16::try_from(u16) accepts
I16_MAX == 32767
\* u16::MAX, the largest value of the `distance: u16` parameters
U16_MAX == 65535
\* the bound the expect() messages say cfg has checked
CfgDistanceBound == 30000

(* ------------------------------ domains -------------------------------- *)

Btn == {"Left", "Right", "Mid", "Backward", "Forward"}
MWheelDirection == {"Up", "Down", "Left", "Right"}
MoveDirection == {"Up", "Down", "Left", "Right", "None"}
KeyValue == {"Press", "Release", "Repeat"}
OsCode == {"KEY_A", "KEY_UNMAPPED"}
MappedOsCode == {"KEY_A"}

\* every value of the `distance: u16` parameters
EncDistances == 0 .. U16_MAX

\* arguments the dispatcher specification calls KbdOut with
CallBtn == {"Left", "Backward"}
CallWheel == {"Up", "Down"}
CallMove == {"Left"}
CallScrollDistances == {CfgDistanceBound + 1, I16_MAX + 1}
CallMoveDistances == {10}
CallChars == {"c"}
CallCodes == {30}
CallCodeValues == {"Press"}
CallKeyValues == {"Repeat"}

Producers == {"p1", "p2"}

(* ------------------------------ strokes -------------------------------- *)

KeyboardStroke(code, state, information) ==
    [kind |-> "Keyboard", code |-> code, state |-> state, information |-> information]

MouseStroke(state, flags, rolling, x, y, information) ==
    [kind |-> "Mouse", state |-> state, flags |-> flags, rolling |-> rolling,
     x |-> x, y |-> y, information |-> information]

NoStroke == [kind |-> "None"]

\* result of an encoder: a stroke, or the panic of expect()/panic!()
Encoded(stroke) == [ok |-> TRUE, stroke |-> stroke]
Panicked == [ok |-> FALSE, stroke |-> NoStroke]

\* Stroke::try_from(OsCode): a keyboard stroke for a mapped code, Err otherwise
Stroke_try_from(code) ==
    IF code \in MappedOsCode
    THEN Encoded(KeyboardStroke(code, {}, 0))
    ELSE Panicked

\* i16::try_from(u16)
i16_try_from(distance) ==
    IF distance <= I16_MAX THEN [ok |-> TRUE, val |-> distance]
                           ELSE [ok |-> FALSE, val |-> 0]

(* ------------------------------ encoders ------------------------------- *)

from_oscode_default(code, val) ==
    LET t == Stroke_try_from(code)
        stroke == IF t.ok THEN t.stroke ELSE KeyboardStroke("Esc", {}, 0)
    IN  Encoded([stroke EXCEPT !.state =
                    @ \cup (IF val \in {"Press", "Repeat"} THEN {"DOWN"} ELSE {"UP"})])

from_oscode(code, val) ==
    LET t == Stroke_try_from(code)
    IN  IF ~t.ok THEN Panicked
        ELSE IF t.stroke.kind = "Keyboard"
        THEN Encoded([t.stroke EXCEPT !.state =
                        @ \cup (IF val \in {"Press", "Repeat"} THEN {"DOWN"} ELSE {"UP"})])
        ELSE Panicked

from_mouse_btn(btn, is_up) ==
    Encoded(MouseStroke(
        CASE btn = "Left" /\ is_up -> "LEFT_BUTTON_UP"
          [] btn = "Left" /\ ~is_up -> "LEFT_BUTTON_DOWN"
          [] btn = "Right" /\ is_up -> "RIGHT_BUTTON_UP"
          [] btn = "Right" /\ ~is_up -> "RIGHT_BUTTON_DOWN"
          [] btn = "Mid" /\ is_up -> "MIDDLE_BUTTON_UP"
          [] btn = "Mid" /\ ~is_up -> "MIDDLE_BUTTON_DOWN"
          [] btn = "Backward" /\ is_up -> "BUTTON_4_DOWN"
          [] btn = "Backward" /\ ~is_up -> "BUTTON_4_UP"
          [] btn = "Forward" /\ is_up -> "BUTTON_5_DOWN"
          [] btn = "Forward" /\ ~is_up -> "BUTTON_5_UP",
        {}, 0, 0, 0, 0))

from_mouse_scroll_negated(direction, distance) ==
    LET t == i16_try_from(distance)
    IN  IF ~t.ok THEN Panicked
        ELSE Encoded(MouseStroke(
                IF direction \in {"Up", "Down"} THEN "WHEEL" ELSE "HWHEEL",
                {},
                IF direction \in {"Up", "Right"} THEN -t.val ELSE t.val,
                0, 0, 0))

\* `distance as i16` in place of the checked conversion
from_mouse_scroll_wrapping(direction, distance) ==
    LET v == IF distance <= I16_MAX THEN distance ELSE distance - (U16_MAX + 1)
    IN  Encoded(MouseStroke(
            IF direction \in {"Up", "Down"} THEN "WHEEL" ELSE "HWHEEL",
            {},
            IF direction \in {"Up", "Right"} THEN v
            ELSE IF v = -(I16_MAX + 1) THEN v ELSE -v,
            0, 0, 0))

from_mouse_scroll(direction, distance) ==
    LET t == i16_try_from(distance)
    IN  IF ~t.ok THEN Panicked
        ELSE Encoded(MouseStroke(
                IF direction \in {"Up", "Down"} THEN "WHEEL" ELSE "HWHEEL",
                {},
                IF direction \in {"Up", "Right"} THEN t.val ELSE -t.val,
                0, 0, 0))

from_mouse_move_swapped(direction, distance) ==
    Encoded(MouseStroke("MOVE", {}, 0,
        CASE direction = "Up" -> -distance
          [] direction = "Down" -> distance
          [] OTHER -> 0,
        CASE direction = "Left" -> -distance
          [] direction = "Right" -> distance
          [] OTHER -> 0,
        0))

from_mouse_move(direction, distance) ==
    Encoded(MouseStroke("MOVE", {}, 0,
        CASE direction = "Left" -> -distance
          [] direction = "Right" -> distance
          [] OTHER -> 0,
        CASE direction = "Up" -> -distance
          [] direction = "Down" -> distance
          [] OTHER -> 0,
        0))

(* ------------------------------- state --------------------------------- *)

VARIABLES
    chan,       \* the (bool, InputEvent) pairs in the mpsc channel, oldest first
    rx_alive,   \* the Receiver half has not been dropped
    received,   \* the pairs the reading loop has taken out of the channel
    pc,         \* per producer: where its KbdOut call stands
    oplog,      \* the KbdOut calls made so far, in call order, with their outcome
    injected,   \* the direct injections made through send_uc / write_code
    call,       \* the encoder call under test (encoder specification)
    ret         \* its result

vars == <<chan, rx_alive, received, pc, oplog, injected, call, ret>>

Ready == [at |-> "ready", c |-> "-", idx |-> 0]
NoCall == [fn |-> "-", a |-> "-", val |-> "-", up |-> FALSE, d |-> 0]
NoRet == [done |-> FALSE, r |-> Panicked]

\* the payload notify_can_block sends with its marker
Placeholder == KeyboardStroke("Esc", {}, 0)

\* already-encoded events a caller hands to write()
RawEvent(name) ==
    CASE name = "esc_blank" -> KeyboardStroke("Esc", {}, 0)

RawEventNames == {"esc_blank"}

(* --------------------------- the mpsc channel -------------------------- *)

\* a channel that hands the newest pair out first
Sender_send_lifo(ch, alive, item) ==
    IF alive THEN [ok |-> TRUE, chan |-> <<item>> \o ch]
             ELSE [ok |-> FALSE, chan |-> ch]

\* Sender::send: appends while the Receiver lives, Err(SendError) afterwards
Sender_send(ch, alive, item) ==
    IF alive THEN [ok |-> TRUE, chan |-> Append(ch, item)]
             ELSE [ok |-> FALSE, chan |-> ch]

\* a rendezvous channel: send waits until the pending pair has been taken
Sender_ready_bounded(ch) == Len(ch) < 1

\* Sender (the unbounded channel's handle): send never waits for room
Sender_ready(ch) == TRUE

\* an error swallowed instead of unwrapped
unwrap_ignored(ok) == "Ok"

\* Result::unwrap() followed by Ok(()): a panic on Err
unwrap(ok) == IF ok THEN "Ok" ELSE "panic"

(* ------------------------------- KbdOut -------------------------------- *)

Entry(p, op, a, b, n) ==
    [by |-> p, op |-> op, a |-> a, b |-> b, n |-> n, rx |-> rx_alive, res |-> "-"]

\* encode, then `self.keys_tx.send((may_block, event)).unwrap(); Ok(())`
Handoff(p, entry, enc, may_block) ==
    /\ pc[p].at = "ready"
    /\ Sender_ready(chan)
    /\ LET item == [may_block |-> may_block, event |-> enc.stroke,
                    call |-> Len(oplog) + 1]
           s == IF enc.ok THEN Sender_send(chan, rx_alive, item)
                          ELSE [ok |-> FALSE, chan |-> chan]
           res == IF enc.ok THEN unwrap(s.ok) ELSE "panic"
       IN  /\ chan' = s.chan
           /\ oplog' = Append(oplog, [entry EXCEPT !.res = res])
           /\ pc' = [pc EXCEPT ![p] = IF res = "Ok" THEN Ready
                                      ELSE [Ready EXCEPT !.at = "panicked"]]
    /\ UNCHANGED <<rx_alive, received, injected, call, ret>>

write(p, name) ==
    Handoff(p, Entry(p, "write", name, "-", 0), Encoded(RawEvent(name)), FALSE)

notify_can_block_untagged(p) ==
    Handoff(p, Entry(p, "notify_can_block", "-", "-", 0), Encoded(Placeholder), FALSE)

notify_can_block(p) ==
    Handoff(p, Entry(p, "notify_can_block", "-", "-", 0), Encoded(Placeholder), TRUE)

write_key(p, key, value) ==
    Handoff(p, Entry(p, "write_key", key, value, 0), from_oscode(key, value), FALSE)

press_key(p, key) ==
    Handoff(p, Entry(p, "press_key", key, "-", 0), from_oscode(key, "Press"), FALSE)

release_key(p, key) ==
    Handoff(p, Entry(p, "release_key", key, "-", 0), from_oscode(key, "Release"), FALSE)

click_btn(p, btn) ==
    Handoff(p, Entry(p, "click_btn", btn, "-", 0), from_mouse_btn(btn, FALSE), FALSE)

release_btn(p, btn) ==
    Handoff(p, Entry(p, "release_btn", btn, "-", 0), from_mouse_btn(btn, TRUE), FALSE)

scroll(p, direction, distance) ==
    Handoff(p, Entry(p, "scroll", direction, "-", distance),
            from_mouse_scroll(direction, distance), FALSE)

move_mouse(p, direction, distance) ==
    Handoff(p, Entry(p, "move_mouse", direction, "-", distance),
            from_mouse_move(direction, distance), FALSE)

\* super::send_uc(c, up): one direct injection, outside the channel
send_uc(log, p, c, up, idx, at) ==
    Append(log, [by |-> p, prim |-> "send_uc", c |-> c, code |-> 0, up |-> up,
                 call |-> idx, at |-> at])

\* super::write_code(code, value): one direct injection, outside the channel
super_write_code(log, p, code, value, idx) ==
    Append(log, [by |-> p, prim |-> "write_code", c |-> "-", code |-> code,
                 up |-> (value = "Release"), call |-> idx, at |-> idx])

\* send_unicode up to and including `super::send_uc(c, false)`
send_unicode_press(p, c) ==
    /\ pc[p].at = "ready"
    /\ oplog' = Append(oplog, Entry(p, "send_unicode", c, "-", 0))
    /\ injected' = send_uc(injected, p, c, FALSE, Len(oplog) + 1, Len(oplog) + 1)
    /\ pc' = [pc EXCEPT ![p] = [at |-> "send_uc", c |-> c, idx |-> Len(oplog) + 1]]
    /\ UNCHANGED <<chan, rx_alive, received, call, ret>>

send_unicode_release_first(p) ==
    /\ pc[p].at = "send_uc"
    /\ injected' = <<[by |-> p, prim |-> "send_uc", c |-> pc[p].c, code |-> 0,
                      up |-> TRUE, call |-> pc[p].idx, at |-> Len(oplog)]>> \o injected
    /\ oplog' = [oplog EXCEPT ![pc[p].idx].res = "Ok"]
    /\ pc' = [pc EXCEPT ![p] = Ready]
    /\ UNCHANGED <<chan, rx_alive, received, call, ret>>

\* send_unicode from `super::send_uc(c, true)` to `Ok(())`
send_unicode_release(p) ==
    /\ pc[p].at = "send_uc"
    /\ injected' = send_uc(injected, p, pc[p].c, TRUE, pc[p].idx, Len(oplog))
    /\ oplog' = [oplog EXCEPT ![pc[p].idx].res = "Ok"]
    /\ pc' = [pc EXCEPT ![p] = Ready]
    /\ UNCHANGED <<chan, rx_alive, received, call, ret>>

\* write_code: the result of super::write_code is returned as it is
write_code(p, code, value, res) ==
    /\ pc[p].at = "ready"
    /\ oplog' = Append(oplog, [Entry(p, "write_code", "-", value, code) EXCEPT !.res = res])
    /\ injected' = IF res = "Ok"
                   THEN super_write_code(injected, p, code, value, Len(oplog) + 1)
                   ELSE injected
    /\ UNCHANGED <<chan, rx_alive, received, pc, call, ret>>

(* ------------------------- the reading loop ---------------------------- *)

\* Receiver::recv / try_recv: takes the oldest pair
recv ==
    /\ rx_alive
    /\ chan # <<>>
    /\ received' = Append(received, Head(chan))
    /\ chan' = Tail(chan)
    /\ UNCHANGED <<rx_alive, pc, oplog, injected, call, ret>>

\* the Receiver is dropped: the pairs still queued are discarded
drop_receiver ==
    /\ rx_alive
    /\ rx_alive' = FALSE
    /\ chan' = <<>>
    /\ UNCHANGED <<received, pc, oplog, injected, call, ret>>

(* --------------------------- specifications ---------------------------- *)

Init ==
    /\ chan = <<>>
    /\ rx_alive = TRUE
    /\ received = <<>>
    /\ pc = [p \in Producers |-> Ready]
    /\ oplog = <<>>
    /\ injected = <<>>
    /\ call = NoCall
    /\ ret = NoRet

\* the calls of the producers in P, at most `limit` of them, and the reading loop
NextFor(P, limit) ==
    \/ \E p \in P, name \in RawEventNames :
          Len(oplog) < limit /\ write(p, name)
    \/ \E p \in P, code \in CallCodes, value \in CallCodeValues, res \in {"Ok", "Err"} :
          Len(oplog) < limit /\ write_code(p, code, value, res)
    \/ \E p \in P :
          Len(oplog) < limit /\ notify_can_block(p)
    \/ \E p \in P, key \in OsCode, value \in CallKeyValues :
          Len(oplog) < limit /\ write_key(p, key, value)
    \/ \E p \in P, key \in OsCode :
          Len(oplog) < limit /\ press_key(p, key)
    \/ \E p \in P, key \in OsCode :
          Len(oplog) < limit /\ release_key(p, key)
    \/ \E p \in P, btn \in CallBtn :
          Len(oplog) < limit /\ click_btn(p, btn)
    \/ \E p \in P, btn \in CallBtn :
          Len(oplog) < limit /\ release_btn(p, btn)
    \/ \E p \in P, direction \in CallWheel, distance \in CallScrollDistances :
          Len(oplog) < limit /\ scroll(p, direction, distance)
    \/ \E p \in P, c \in CallChars :
          Len(oplog) < limit /\ send_unicode_press(p, c)
    \/ \E p \in P : send_unicode_release(p)
    \/ \E p \in P, direction \in CallMove, distance \in CallMoveDistances :
          Len(oplog) < limit /\ move_mouse(p, direction, distance)
    \/ recv
    \/ drop_receiver

\* one producer thread
Next == NextFor({"p1"}, MaxCalls)

Spec == Init /\ [][Next]_vars

\* several producer threads holding clones of the Sender
MPNext == NextFor(Producers, MaxConcurrentCalls)

MPSpec == Init /\ [][MPNext]_vars

\* c is a call of one of the four encoders
EncCall(c) ==
    \/ \E k \in OsCode, v \in KeyValue :
          c = [fn |-> "from_oscode", a |-> k, val |-> v, up |-> FALSE, d |-> 0]
    \/ \E b \in Btn, u \in BOOLEAN :
          c = [fn |-> "from_mouse_btn", a |-> b, val |-> "-", up |-> u, d |-> 0]
    \/ \E dir \in MWheelDirection, dist \in EncDistances :
          c = [fn |-> "from_mouse_scroll", a |-> dir, val |-> "-", up |-> FALSE, d |-> dist]
    \/ \E dir \in MoveDirection, dist \in EncDistances :
          c = [fn |-> "from_mouse_move", a |-> dir, val |-> "-", up |-> FALSE, d |-> dist]

EncInit ==
    /\ chan = <<>>
    /\ rx_alive = TRUE
    /\ received = <<>>
    /\ pc = [p \in Producers |-> Ready]
    /\ oplog = <<>>
    /\ injected = <<>>
    /\ EncCall(call)
    /\ ret = NoRet

Return(r) ==
    /\ ~ret.done
    /\ ret' = [done |-> TRUE, r |-> r]
    /\ UNCHANGED <<chan, rx_alive, received, pc, oplog, injected, call>>

call_from_oscode ==
    call.fn = "from_oscode" /\ Return(from_oscode(call.a, call.val))

call_from_mouse_btn ==
    call.fn = "from_mouse_btn" /\ Return(from_mouse_btn(call.a, call.up))

call_from_mouse_scroll ==
    call.fn = "from_mouse_scroll" /\ Return(from_mouse_scroll(call.a, call.d))

call_from_mouse_move ==
    call.fn = "from_mouse_move" /\ Return(from_mouse_move(call.a, call.d))

EncNext ==
    \/ call_from_oscode
    \/ call_from_mouse_btn
    \/ call_from_mouse_scroll
    \/ call_from_mouse_move

EncSpec == EncInit /\ [][EncNext]_vars

(* ------------------------ vocabulary of the claims --------------------- *)

EnqueueOps ==
    {"write", "write_key", "press_key", "release_key", "click_btn", "release_btn",
     "scroll", "move_mouse", "notify_can_block"}

RealEventOps == EnqueueOps \ {"notify_can_block"}

\* what the reading loop has taken and what it will take, in order
Delivered == received \o chan

ItemsBy(p) == SelectSeq(Delivered, LAMBDA it : oplog[it.call].by = p)

\* the enqueuing calls of p that returned Ok(()), in call order
OkEnqueues(p) ==
    SelectSeq(oplog, LAMBDA e : e.by = p /\ e.op \in EnqueueOps /\ e.res = "Ok")

AllOkEnqueues == SelectSeq(oplog, LAMBDA e : e.op \in EnqueueOps /\ e.res = "Ok")

\* the event the call of a log entry is documented to encode
EventOf(e) ==
    CASE e.op = "write" -> RawEvent(e.a)
      [] e.op = "write_key" -> from_oscode(e.a, e.b).stroke
      [] e.op = "press_key" -> from_oscode(e.a, "Press").stroke
      [] e.op = "release_key" -> from_oscode(e.a, "Release").stroke
      [] e.op = "click_btn" -> from_mouse_btn(e.a, FALSE).stroke
      [] e.op = "release_btn" -> from_mouse_btn(e.a, TRUE).stroke
      [] e.op = "scroll" -> from_mouse_scroll(e.a, e.n).stroke
      [] e.op = "move_mouse" -> from_mouse_move(e.a, e.n).stroke
      [] e.op = "notify_can_block" -> Placeholder

PairOf(e) == [may_block |-> (e.op = "notify_can_block"), event |-> EventOf(e)]

PairIn(it) == [may_block |-> it.may_block, event |-> it.event]

Count(seq, x) == Cardinality({i \in DOMAIN seq : seq[i] = x})

ItemsOfCall(i) == {k \in DOMAIN Delivered : Delivered[k].call = i}

\* each button's own flags
OwnFlag(btn, is_up) ==
    CASE btn = "Left" -> IF is_up THEN "LEFT_BUTTON_UP" ELSE "LEFT_BUTTON_DOWN"
      [] btn = "Right" -> IF is_up THEN "RIGHT_BUTTON_UP" ELSE "RIGHT_BUTTON_DOWN"
      [] btn = "Mid" -> IF is_up THEN "MIDDLE_BUTTON_UP" ELSE "MIDDLE_BUTTON_DOWN"
      [] btn = "Backward" -> IF is_up THEN "BUTTON_4_UP" ELSE "BUTTON_4_DOWN"
      [] btn = "Forward" -> IF is_up THEN "BUTTON_5_UP" ELSE "BUTTON_5_DOWN"

Abs(n) == IF n < 0 THEN -n ELSE n

(* -------------------------------- C1 ----------------------------------- *)

\* C1: from_mouse_btn(b, is_up) returns a mouse stroke whose state is b's own
\* DOWN flag for is_up = FALSE and b's own UP flag for is_up = TRUE, with empty
\* flags and rolling, x, y, information all 0, and the ten (button, transition)
\* pairs give ten distinct states.
C1_ButtonPairing ==
    (ret.done /\ call.fn = "from_mouse_btn") =>
        /\ ret.r.ok
        /\ ret.r.stroke = MouseStroke(OwnFlag(call.a, call.up), {}, 0, 0, 0, 0)
        /\ \A b \in Btn, u \in BOOLEAN :
              (<<b, u>> # <<call.a, call.up>>) =>
                  from_mouse_btn(b, u).stroke.state # ret.r.stroke.state

(* -------------------------------- C2 ----------------------------------- *)

\* C2: while the receiver is alive, the pairs the single producer's returned
\* enqueuing calls handed over are exactly the pairs the consumer has received
\* or will receive next, one per call and in call order: nothing is dropped,
\* duplicated or reordered.
C2_SingleProducerFifo ==
    rx_alive =>
        LET calls == OkEnqueues("p1")
        IN  /\ Len(Delivered) = Len(calls)
            /\ \A i \in DOMAIN Delivered : PairIn(Delivered[i]) = PairOf(calls[i])
            /\ \A i \in DOMAIN Delivered : oplog[Delivered[i].call] = calls[i]

C2_Witness ==
    /\ rx_alive
    /\ Len(received) = 3
    /\ oplog[1].op = "scroll" /\ oplog[2].op = "press_key" /\ oplog[3].op = "release_btn"
    /\ received[1].event.kind = "Mouse" /\ received[2].event.kind = "Keyboard"

(* -------------------------------- C3 ----------------------------------- *)

\* C3: a pair in the channel or taken from it is tagged may_block = TRUE exactly
\* when notify_can_block enqueued it; and after the calls A, notify_can_block, B
\* of one producer (A, B real-event operations that returned) the consumer gets
\* exactly A's event untagged, the tagged marker, B's event untagged, in that order.
C3_MarkerBetweenEvents ==
    /\ \A i \in DOMAIN Delivered :
          Delivered[i].may_block <=> (oplog[Delivered[i].call].op = "notify_can_block")
    /\ ( /\ rx_alive
         /\ Len(oplog) = 3
         /\ oplog[1].op \in RealEventOps /\ oplog[1].res = "Ok"
         /\ oplog[2].op = "notify_can_block" /\ oplog[2].res = "Ok"
         /\ oplog[3].op \in RealEventOps /\ oplog[3].res = "Ok" )
       => /\ Len(Delivered) = 3
          /\ PairIn(Delivered[1]) = [may_block |-> FALSE, event |-> EventOf(oplog[1])]
          /\ Delivered[2].may_block
          /\ PairIn(Delivered[3]) = [may_block |-> FALSE, event |-> EventOf(oplog[3])]

C3_Witness ==
    /\ rx_alive
    /\ Len(received) = 3
    /\ oplog[1].op = "write" /\ oplog[2].op = "notify_can_block" /\ oplog[3].op = "click_btn"
    /\ received[1].event = received[2].event
    /\ ~received[1].may_block /\ received[2].may_block /\ ~received[3].may_block

(* -------------------------------- C4 ----------------------------------- *)

\* C4: for every direction and every distance d in 0..30000, from_mouse_scroll
\* returns without fault a mouse stroke with state WHEEL for Up/Down and HWHEEL
\* for Left/Right, rolling = +d for Up and Right, -d for Down and Left, and
\* x = y = information = 0.
C4_ScrollEncoding ==
    (ret.done /\ call.fn = "from_mouse_scroll" /\ call.d <= CfgDistanceBound) =>
        /\ ret.r.ok
        /\ ret.r.stroke =
              MouseStroke(IF call.a \in {"Up", "Down"} THEN "WHEEL" ELSE "HWHEEL",
                          {},
                          IF call.a \in {"Up", "Right"} THEN call.d ELSE 0 - call.d,
                          0, 0, 0)

C4_Witness ==
    /\ ret.done
    /\ call.fn = "from_mouse_scroll" /\ call.a = "Down" /\ call.d = CfgDistanceBound
    /\ ret.r.stroke.rolling = 0 - CfgDistanceBound

(* -------------------------------- C5 ----------------------------------- *)

\* C5: for every distance d in 0..30000, from_mouse_move returns a mouse stroke
\* with state MOVE and rolling = 0 where Left gives (x, y) = (-d, 0), Right
\* (+d, 0), Up (0, -d) and Down (0, +d); any other direction gives (0, 0) and
\* is not a fault.
C5_MoveEncoding ==
    (ret.done /\ call.fn = "from_mouse_move" /\ call.d <= CfgDistanceBound) =>
        /\ ret.r.ok
        /\ ret.r.stroke.state = "MOVE"
        /\ ret.r.stroke.rolling = 0
        /\ <<ret.r.stroke.x, ret.r.stroke.y>> =
              CASE call.a = "Left" -> <<0 - call.d, 0>>
                [] call.a = "Right" -> <<call.d, 0>>
                [] call.a = "Up" -> <<0, 0 - call.d>>
                [] call.a = "Down" -> <<0, call.d>>
                [] OTHER -> <<0, 0>>

C5_Witness ==
    /\ ret.done
    /\ call.fn = "from_mouse_move" /\ call.a = "Up" /\ call.d = 10
    /\ ret.r.stroke.x = 0 /\ ret.r.stroke.y = -10

(* -------------------------------- C6 ----------------------------------- *)

C7_SendAfterDropPanics ==
    /\ \A i \in DOMAIN oplog :
          (oplog[i].op \in EnqueueOps /\ ~oplog[i].rx) =>
              /\ oplog[i].res = "panic"
              /\ ItemsOfCall(i) = {}
              /\ \A j \in DOMAIN oplog : j > i => oplog[j].by # oplog[i].by
              /\ pc[oplog[i].by].at = "panicked"
    /\ ~rx_alive => chan = <<>>

C7_Witness ==
    /\ ~rx_alive
    /\ Len(oplog) = 2
    /\ oplog[1].op = "click_btn" /\ oplog[1].rx /\ oplog[1].res = "Ok"
    /\ oplog[2].op = "notify_can_block" /\ ~oplog[2].rx /\ oplog[2].res = "panic"

(* -------------------------------- C8 ----------------------------------- *)

\* C8: press_key, release_key or write_key with an OsCode that has no scan-code
\* mapping panics before anything is sent: the call does not return Ok, no pair
\* of it is in the channel or was taken from it, and the producer has stopped.
C8_UnmappedKeyPanics ==
    \A i \in DOMAIN oplog :
        (oplog[i].op \in {"press_key", "release_key", "write_key"}
            /\ oplog[i].a \notin MappedOsCode) =>
            /\ oplog[i].res = "panic"
            /\ ItemsOfCall(i) = {}
            /\ Len(Delivered) = Len(AllOkEnqueues) \/ ~rx_alive
            /\ pc[oplog[i].by].at = "panicked"

C8_Witness ==
    /\ rx_alive
    /\ Len(oplog) = 2
    /\ oplog[1].op = "press_key" /\ oplog[1].a = "KEY_A" /\ oplog[1].res = "Ok"
    /\ oplog[2].op = "release_key" /\ oplog[2].a = "KEY_UNMAPPED"
    /\ oplog[2].rx /\ oplog[2].res = "panic"
    /\ Len(chan) = 1

(* -------------------------------- C9 ----------------------------------- *)

InjectionsOf(i) == SelectSeq(injected, LAMBDA r : r.call = i)

InjectionsBy(p) == SelectSeq(injected, LAMBDA r : r.by = p)

\* C9: send_unicode(c) hands nothing to the channel and makes exactly two direct
\* injections for c, the press (up = FALSE) first and the release (up = TRUE)
\* second, with no other output of the same caller between them.
C9_SendUnicodeBypassesChannel ==
    \A i \in DOMAIN oplog :
        oplog[i].op = "send_unicode" =>
            LET inj == InjectionsOf(i)
                own == InjectionsBy(oplog[i].by)
            IN  /\ ItemsOfCall(i) = {}
                /\ Len(inj) = (IF oplog[i].res = "Ok" THEN 2 ELSE 1)
                /\ \A k \in DOMAIN inj :
                      /\ inj[k].prim = "send_uc"
                      /\ inj[k].c = oplog[i].a
                      /\ inj[k].by = oplog[i].by
                      /\ inj[k].up = (k = 2)
                /\ \A k \in DOMAIN own :
                      (own[k].call = i /\ ~own[k].up /\ oplog[i].res = "Ok") =>
                          /\ k < Len(own)
                          /\ own[k + 1].call = i /\ own[k + 1].up
                          /\ \A j \in (i + 1) .. own[k + 1].at :
                                oplog[j].by # oplog[i].by

C9_Witness ==
    /\ Len(oplog) = 2
    /\ oplog[1].op = "send_unicode" /\ oplog[1].by = "p1" /\ oplog[1].res = "Ok"
    /\ oplog[2].op = "click_btn" /\ oplog[2].by = "p2" /\ oplog[2].res = "Ok"
    /\ Len(injected) = 2 /\ injected[2].at = 2
    /\ Len(chan) = 1

(* -------------------------------- C10 ---------------------------------- *)

\* C10 as stated: scroll(direction, d) with d greater than 30000 panics and
\* enqueues nothing, so no pair enqueued by scroll has a rolling magnitude
\* above 30000.
C10_FaultAboveCfgBound ==
    /\ \A i \in DOMAIN oplog :
          (oplog[i].op = "scroll" /\ oplog[i].n > CfgDistanceBound) =>
              oplog[i].res = "panic" /\ ItemsOfCall(i) = {}
    /\ \A k \in DOMAIN Delivered :
          oplog[Delivered[k].call].op = "scroll" =>
              Abs(Delivered[k].event.rolling) <= CfgDistanceBound

\* C10 as amended: scroll(direction, d) panics and enqueues nothing exactly when
\* d is above i16::MAX = 32767; a distance in 30001..32767 is not checked again
\* and is enqueued as data, so no pair enqueued by scroll has a rolling magnitude
\* above 32767.
C10_FaultAboveI16Max ==
    /\ \A i \in DOMAIN oplog :
          oplog[i].op = "scroll" =>
              IF oplog[i].n > I16_MAX
              THEN oplog[i].res = "panic" /\ ItemsOfCall(i) = {}
              ELSE oplog[i].rx =>
                      /\ oplog[i].res = "Ok"
                      /\ rx_alive => \E k \in ItemsOfCall(i) :
                            Abs(Delivered[k].event.rolling) = oplog[i].n
    /\ \A k \in DOMAIN Delivered :
          oplog[Delivered[k].call].op = "scroll" =>
              Abs(Delivered[k].event.rolling) <= I16_MAX

C10_Witness ==
    /\ rx_alive
    /\ Len(oplog) = 2
    /\ oplog[1].op = "scroll" /\ oplog[1].n = CfgDistanceBound + 1 /\ oplog[1].res = "Ok"
    /\ oplog[2].op = "scroll" /\ oplog[2].n = I16_MAX + 1 /\ oplog[2].res = "panic"
    /\ Len(chan) = 1 /\ Abs(chan[1].event.rolling) = CfgDistanceBound + 1

====
